---- MODULE Spec2Model ----
(***************************************************************************)
(* The ledger event indexer of BACKit-onStellar: IndexerService            *)
(* (packages/backend/src/indexer/indexer.service.ts) with its EventParser  *)
(* (event-parser.ts), the ledger RPC and the event_logs table it talks to. *)
(*                                                                         *)
(* One step of the model is one macrotask of the Node.js event loop: a     *)
(* timer tick, or the return of an awaited external call (RPC, database).  *)
(* Code between two awaits of external calls runs to completion inside the *)
(* step, as it does on the single JavaScript thread.                       *)
(***************************************************************************)
EXTENDS Integers, Sequences, FiniteSets, TLC

VARIABLES
    chain,                \* raw events emitted by the watched contracts, in paging order
    head,                 \* sequence number of the latest closed ledger
    configured,           \* both CALL_REGISTRY_CONTRACT_ID and OUTCOME_MANAGER_CONTRACT_ID are set
    log,                  \* the event_logs table, in insertion order
    notified,             \* calls NotificationsService has served, in order
    lastProcessedLedger,  \* IndexerService.lastProcessedLedger (Null = null)
    isProcessing,         \* IndexerService.isProcessing
    isPolling,            \* IndexerService.isPolling
    pollingInterval,      \* IndexerService.pollingInterval is non-null
    intervalActive,       \* the timer created by setInterval in startPolling exists
    phase,                \* "loading": onModuleInit awaits the load; "ready"; "destroyed"
    runs,                 \* executions of processEvents in progress
    done,                 \* summary of the poll cycle that ended last, until the next one starts
    firstStart,           \* start ledger of the first successful getEvents call ever
    escaped,              \* an error has propagated out of pollEvents
    view                  \* the read query in progress or answered last

vars == <<chain, head, configured, log, notified, lastProcessedLedger, isProcessing,
          isPolling, pollingInterval, intervalActive, phase, runs, done,
          firstStart, escaped, view>>

----------------------------------------------------------------------------
(* Bounds of the model *)

\* ledgers close up to this sequence number
MaxLedger == 2
\* events the watched contracts emit in total
MaxEvents == 3
\* rows the event_logs table can hold before every further save is refused
MaxLog == 2
\* page size handed to getEvents (limit: 100 in the code, scaled down)
PageLimit == 2

----------------------------------------------------------------------------
(* Values *)

\* JavaScript null, for a number | null field
Null == -1

\* JavaScript truthiness of a number | null value
TruthyNum(n) == n # Null /\ n # 0

Drivers == {"cron", "interval"}

\* tagged JavaScript values held by eventData
Num(n) == [num |-> n]
Str(s) == [str |-> s]
NaN == [nan |-> TRUE]
Undefined == [undef |-> TRUE]

Truthy(v) == v # Undefined /\ v # NaN /\ v # Num(0) /\ v # Str("")

\* EventType enum
EventTypes == {"call_created", "stake_added", "call_resolved", "call_settled",
               "admin_changed", "outcome_manager_changed", "outcome_finalized",
               "initialized"}

\* the topic lists the watched contracts emit in this model: a well-formed
\* stake_added event and an event of a kind the parser does not know
TopicShapes == { <<Str("stake_added"), Num(1), Str("GSTAKER"), Num(10), Num(1)>>,
                 <<Str("fee_changed"), Num(5)>> }

\* CALL_REGISTRY_CONTRACT_ID and OUTCOME_MANAGER_CONTRACT_ID
ContractIds == {"CREGISTRY", "COUTCOME"}

\* the hash of the transaction that emits the event at position k of the chain
Hash(k) == [tx |-> k]

\* what a watched contract emits: the contract and the topic list
Emission(c, t) == [contractId |-> c, topic |-> t]

\* the emissions of a poller's lifetime: the call registry emits TopicShapes
Emissions == {Emission("CREGISTRY", t) : t \in TopicShapes}

----------------------------------------------------------------------------
(* EventParser *)

\* topics[k] of a JavaScript array (0-based k): undefined past the end
TopicAt(topics, k) == IF k + 1 <= Len(topics) THEN topics[k + 1] ELSE Undefined

\* parseAddress / parseI128: val.toString() throws on undefined
ToStringThrows(v) == v = Undefined

\* parseU64 / parseU32: Number(val)
ParseNumber(v) == IF v = Undefined \/ v = NaN THEN NaN
                  ELSE IF "num" \in DOMAIN v THEN v
                  ELSE NaN

\* parseAddress / parseI128 on a defined value
ParseString(v) == IF "str" \in DOMAIN v THEN v
                  ELSE IF "num" \in DOMAIN v THEN Str(ToString(v.num))
                  ELSE Str("NaN")

\* parseBytes: Buffer.from(val) throws unless val is a string or a byte array
BufferFromThrows(v) == v = Undefined \/ v = NaN \/ "num" \in DOMAIN v

\* parseBytes on a value Buffer.from accepts: the hex rendering of its bytes
ParseBytes(v) == [hex |-> v.str]

\* the parse helper a payload position goes through
FieldThrows(type, v) ==
    CASE type \in {"addr", "i128"} -> ToStringThrows(v)
      [] type = "bytes"            -> BufferFromThrows(v)
      [] OTHER                     -> FALSE

FieldValue(type, v) ==
    CASE type \in {"addr", "i128"} -> ParseString(v)
      [] type = "bytes"            -> ParseBytes(v)
      [] OTHER                     -> ParseNumber(v)

\* the payload layout of each parse method: field k (1-based) reads topics[k]
KindFields(kind) ==
    CASE kind = "call_created" ->
           << <<"callId", "u64">>, <<"creator", "addr">>, <<"stakeToken", "addr">>,
              <<"stakeAmount", "i128">>, <<"endTs", "u64">>, <<"tokenAddress", "addr">>,
              <<"pairId", "bytes">>, <<"ipfsCid", "bytes">> >>
      [] kind = "stake_added" ->
           << <<"callId", "u64">>, <<"staker", "addr">>, <<"amount", "i128">>,
              <<"position", "u32">> >>
      [] kind = "call_resolved" ->
           << <<"callId", "u64">>, <<"outcome", "u32">>, <<"endPrice", "i128">> >>
      [] kind = "call_settled" ->
           << <<"callId", "u64">>, <<"winnerCount", "u64">> >>
      [] kind = "admin_changed" ->
           << <<"oldAdmin", "addr">>, <<"newAdmin", "addr">> >>
      [] kind = "outcome_manager_changed" ->
           << <<"oldManager", "addr">>, <<"newManager", "addr">> >>
      [] kind = "outcome_finalized" ->
           << <<"callId", "u64">> >>
      [] kind = "initialized" ->
           << <<"admin", "addr">>, <<"outcomeManager", "addr">> >>

\* parseEvent returns null
NoEvent == [none |-> TRUE]

\* parseCallCreated .. parseInitialized: the ParsedEvent, or NoEvent when a parse
\* helper (or, for call_created, ScVal.fromXDR of the value blob) throws
ParseKind(kind, raw) ==
    LET fields == KindFields(kind)
        idx(f) == CHOOSE k \in 1..Len(fields) : fields[k][1] = f
    IN IF (kind = "call_created" /\ ~raw.valueIsXdr)
          \/ \E k \in 1..Len(fields) : FieldThrows(fields[k][2], TopicAt(raw.topic, k))
       THEN NoEvent
       ELSE [contractId |-> raw.contractId,
             eventType |-> kind,
             ledger    |-> raw.ledger,
             txHash    |-> raw.txHash,
             txOrder   |-> raw.pagingToken,
             timestamp |-> [date |-> raw.createdAt],
             eventData |-> [f \in {fields[k][1] : k \in 1..Len(fields)} |->
                              FieldValue(fields[idx(f)][2], TopicAt(raw.topic, idx(f)))]]

\* the name parseEvent dispatches on
EventName(raw) == TopicAt(raw.topic, 0)

\* parseEvent: a ParsedEvent, or NoEvent
ParseEventElseFinalized(raw) ==
    IF Len(raw.topic) = 0 THEN NoEvent
    ELSE IF \E kind \in EventTypes : EventName(raw) = Str(kind)
         THEN ParseKind(CHOOSE kind \in EventTypes : EventName(raw) = Str(kind), raw)
    ELSE ParseKind("outcome_finalized", raw)

ParseEvent(raw) ==
    IF Len(raw.topic) = 0 THEN NoEvent
    ELSE IF \E kind \in EventTypes : EventName(raw) = Str(kind)
         THEN ParseKind(CHOOSE kind \in EventTypes : EventName(raw) = Str(kind), raw)
    ELSE IF EventName(raw) = Str("finalized") THEN ParseKind("outcome_finalized", raw)
    ELSE NoEvent

\* this.eventParser.parseEvent(event) (line 116 of the service): the injected
\* parser is EventParser; an event that carries a stub is answered by a substituted
\* parser with that ParsedEvent
InjectedParse(raw) == IF "stub" \in DOMAIN raw THEN raw.stub ELSE ParseEvent(raw)

Decodable(raw) == InjectedParse(raw) # NoEvent

----------------------------------------------------------------------------
(* Ledger RPC *)

RECURSIVE SelectFrom(_, _, _)
\* indices k >= from of chain c whose ledger is >= start, in paging order
SelectFrom(c, start, from) ==
    IF from > Len(c) THEN <<>>
    ELSE IF c[from].ledger >= start
         THEN <<from>> \o SelectFrom(c, start, from + 1)
         ELSE SelectFrom(c, start, from + 1)

Take(s, n) == IF Len(s) <= n THEN s ELSE SubSeq(s, 1, n)

\* server.getEvents({startLedger, filters, limit}): the events of the response
GetEventsPage(start, limit) == Take(SelectFrom(chain, start, 1), limit)

----------------------------------------------------------------------------
(* Event store *)

RECURSIVE MaxLedgerOf(_)
\* SELECT MAX(event.ledger): Null on an empty table
MaxLedgerOf(rows) ==
    IF Len(rows) = 0 THEN Null
    ELSE LET m == MaxLedgerOf(Tail(rows))
         IN IF m = Null \/ Head(rows).ledger > m THEN Head(rows).ledger ELSE m

\* parseInt(pagingToken, 10): the digits before the token's first non-digit
ParseInt(token) == token.toid

\* the columns of EventLog the store requires of a row handed to save: those
\* declared without nullable or default and not generated (id and createdAt are)
RequiredColumns == {"eventId", "pagingToken", "contractId", "eventType", "ledger",
                    "txHash", "txOrder", "eventData", "timestamp"}

\* the entity persistEvent builds from a ParsedEvent
EventLogOf(parsed) ==
    [contractId |-> parsed.contractId,
     eventType |-> parsed.eventType,
     ledger    |-> parsed.ledger,
     txHash    |-> parsed.txHash,
     txOrder   |-> ParseInt(parsed.txOrder),
     eventData |-> parsed.eventData,
     timestamp |-> parsed.timestamp]

\* the row a successful save of raw event k of the chain adds
RowOf(k) == EventLogOf(InjectedParse(chain[k]))

\* eventLogRepository.save(eventLog) on success: the table with one more row
SaveRowDropsOlder(rows, row) == <<row>>

SaveRow(rows, row) == Append(rows, row)

IsPrefix(s, t) == Len(s) <= Len(t) /\ SubSeq(t, 1, Len(s)) = s

----------------------------------------------------------------------------
(* Notification router *)

Field(data, k) == IF k \in DOMAIN data THEN data[k] ELSE Undefined

\* dispatchNotification: the calls into NotificationsService for one event
DispatchNotificationAnyKind(parsed) ==
    IF Truthy(Field(parsed.eventData, "call_id"))
    THEN <<[op |-> "notifyCallEnded", callId |-> Field(parsed.eventData, "call_id")]>>
    ELSE <<>>

DispatchNotification(parsed) ==
    LET data == parsed.eventData IN
    IF parsed.eventType = "stake_added"
    THEN IF Truthy(Field(data, "call_creator")) /\ Truthy(Field(data, "backer"))
            /\ Truthy(Field(data, "call_id"))
         THEN <<[op |-> "notifyBackedCall", callId |-> Field(data, "call_id")]>>
         ELSE <<>>
    ELSE IF parsed.eventType = "call_resolved"
    THEN IF Truthy(Field(data, "creator")) /\ Truthy(Field(data, "call_id"))
         THEN <<[op |-> "notifyCallEnded", callId |-> Field(data, "call_id")]>>
         ELSE <<>>
    ELSE IF parsed.eventType = "call_settled"
    THEN IF Truthy(Field(data, "winner")) /\ Truthy(Field(data, "call_id"))
         THEN <<[op |-> "notifyPayoutReady", callId |-> Field(data, "call_id")]>>
         ELSE <<>>
    ELSE <<>>

----------------------------------------------------------------------------
(* Read queries *)

\* no read query is in progress and none has been answered
Idle == [pc |-> "idle"]

\* ORDER BY event.ledger DESC, event.txOrder DESC: row a sorts before row b
SortsBeforeAscending(a, b) ==
    a.ledger < b.ledger \/ (a.ledger = b.ledger /\ a.txOrder < b.txOrder)

SortsBefore(a, b) ==
    a.ledger > b.ledger \/ (a.ledger = b.ledger /\ a.txOrder > b.txOrder)

RECURSIVE OrderDesc(_, _)
\* the rows at the positions S of the table, in that order
OrderDesc(rows, S) ==
    IF S = {} THEN <<>>
    ELSE LET i == CHOOSE i \in S : \A j \in S : ~SortsBefore(rows[j], rows[i])
         IN <<rows[i]>> \o OrderDesc(rows, S \ {i})

\* getEventsByType (lines 258-280): startLedger and endLedger may be undefined
\* (Null) and are applied only when truthy
EventsByType(rows, eventType, startLedger, endLedger, limit) ==
    Take(OrderDesc(rows, {i \in 1..Len(rows) :
                            /\ rows[i].eventType = eventType
                            /\ TruthyNum(startLedger) => rows[i].ledger >= startLedger
                            /\ TruthyNum(endLedger) => rows[i].ledger <= endLedger}),
         limit)

\* getEventsByContract (lines 285-296)
EventsByContract(rows, contractId, limit) ==
    Take(OrderDesc(rows, {i \in 1..Len(rows) : rows[i].contractId = contractId}), limit)

\* eventLogRepository.count()
Count(rows) == Len(rows)

\* the getOne() of getStatus: the first row in descending order, or Null
LatestEvent(rows) ==
    IF Len(rows) = 0 THEN Null ELSE OrderDesc(rows, 1..Len(rows))[1].ledger

\* the object getStatus returns (lines 309-315)
StatusOfLatestAsCheckpoint(cp, eventCount, latestLedger) ==
    [isRunning |-> TRUE, lastProcessedLedger |-> latestLedger,
     totalEventsIndexed |-> eventCount,
     latestEventLedger |-> IF TruthyNum(latestLedger) THEN latestLedger ELSE Null]

StatusOf(cp, eventCount, latestLedger) ==
    [isRunning |-> TRUE, lastProcessedLedger |-> cp,
     totalEventsIndexed |-> eventCount,
     latestEventLedger |-> IF TruthyNum(latestLedger) THEN latestLedger ELSE Null]

----------------------------------------------------------------------------
(* Poll cycle *)

\* the cycle summary recorded when execution r of processEvents ends
Summary(r, outcome, cpAfter, rows, calls, threw) ==
    [outcome   |-> outcome,      \* "ok", "unconfigured", "latest_failed", "fetch_failed",
                                 \* "save_failed", "notify_failed"
     start     |-> r.start,      \* startLedger, Null before it is known
     resp      |-> r.resp,       \* chain indices of response.events
     failedAt  |-> r.failedAt,   \* position in resp of the event whose save failed, or 0
     notifyFailedAt |-> r.notifyFailedAt,  \* position of the event whose notification
                                           \* failed last, or 0
     cpBefore  |-> r.cpBefore,   \* lastProcessedLedger when the cycle started
     cpAfter   |-> cpAfter,      \* lastProcessedLedger when the cycle ended
     logBefore |-> r.logBefore,  \* rows in the table when the cycle started
     logAfter  |-> Len(rows),    \* rows in the table when the cycle ended
     calls     |-> Len(calls) - r.callsBefore,     \* notification calls of the cycle
     wrote     |-> cpAfter # lastProcessedLedger,  \* the cycle assigned the checkpoint
     threw     |-> threw]        \* pollEvents rejected

\* no cycle has ended since the process or the running cycle started
NoCycle == [outcome |-> "none", start |-> Null, resp |-> <<>>,
            failedAt |-> 0, notifyFailedAt |-> 0, cpBefore |-> Null, cpAfter |-> Null, logBefore |-> 0, logAfter |-> 0,
            calls |-> 0, wrote |-> FALSE, threw |-> FALSE]

\* pollEvents' guard (lines 60-65): the tick is skipped
PollEventsSkipsNever == FALSE

PollEventsSkips == isProcessing

\* the catch of persistEvent (lines 163-169): the error it rethrows
PersistEventSwallows(err) == FALSE

PersistEventRethrows(err) == err

\* the catch of dispatchNotification (lines 202-208): the error it rethrows
DispatchNotificationPropagates(err) == err

DispatchNotificationRethrows(err) == FALSE

\* persistEvent reaches its call of dispatchNotification (line 158), given whether
\* the save it awaits before (line 155) returned
DispatchAfterSaveAlways(saved) == TRUE

DispatchAfterSave(saved) == saved

\* the catch of processEvents (lines 134-137): the error it rethrows
ProcessEventsRethrows(err) == FALSE

\* the catch of pollEvents (lines 71-73): the error it rethrows
PollEventsRethrows(err) == FALSE

\* pollEvents' finally (lines 73-75): the value isProcessing is left with when
\* processEvents ended with error err
FinallyKeepsFlagOnError(err) == err

FinallyIsProcessing(err) == FALSE

\* the catch of processEvents (lines 134-137): the checkpoint it leaves when the
\* cycle r fails
CheckpointAfterErrorSkipsAhead(cp, r) == IF r.start # Null THEN r.start ELSE cp

CheckpointAfterError(cp, r) == cp

\* the checkpoint update of processEvents (lines 124-128): the new checkpoint
AdvanceNever(cp, latest) == cp

Advance(cp, latest) ==
    IF TruthyNum(latest) /\ latest > (IF TruthyNum(cp) THEN cp ELSE 0)
    THEN latest ELSE cp

\* saveCheckpoint (lines 249-253): the table after it ran
SaveCheckpoint(rows, ledger) == rows

\* the for loop of processEvents: the first position after `at` in resp whose
\* event parseEvent decodes, 0 when the loop ends
NextDecodableStops(resp, at) ==
    IF at + 1 > Len(resp) THEN 0
    ELSE IF Decodable(chain[resp[at + 1]]) THEN at + 1
    ELSE 0

RECURSIVE NextDecodable(_, _)
NextDecodable(resp, at) ==
    IF at + 1 > Len(resp) THEN 0
    ELSE IF Decodable(chain[resp[at + 1]]) THEN at + 1
    ELSE NextDecodable(resp, at + 1)

\* processEvents returns or throws: pollEvents' catch and finally run, then the
\* finally of the interval callback; old holds the record of the execution in runs
EndCycle(r, old, outcome, cpAfter, rows, calls, err) ==
    LET threw == PollEventsRethrows(ProcessEventsRethrows(err)) IN
    /\ runs' = runs \ old
    /\ lastProcessedLedger' = cpAfter
    /\ isProcessing' = FinallyIsProcessing(err)
    /\ isPolling' = IF r.driver = "interval" THEN FALSE ELSE isPolling
    /\ done' = Summary(r, outcome, cpAfter, rows, calls, threw)
    /\ escaped' = (escaped \/ threw)
    /\ log' = rows
    /\ notified' = calls

\* processEvents fails with the table at rows
FailCycle(r, old, outcome) ==
    EndCycle(r, old, outcome, CheckpointAfterError(lastProcessedLedger, r), log, notified, TRUE)

\* the loop runs on from position r.at with the table at rows: it awaits the next
\* save, or ends and the checkpoint is updated (lines 115-133)
ContinueLoop(r, old, rows, calls) ==
    LET nxt == NextDecodable(r.resp, r.at)
        cp  == Advance(lastProcessedLedger, r.latest)
    IN IF nxt # 0
       THEN /\ runs' = (runs \ old) \cup {[r EXCEPT !.pc = "save", !.at = nxt]}
            /\ log' = rows
            /\ notified' = calls
            /\ UNCHANGED <<lastProcessedLedger, isProcessing, isPolling, done, escaped>>
       ELSE EndCycle(r, old, "ok", cp,
                     IF cp # lastProcessedLedger THEN SaveCheckpoint(rows, r.latest) ELSE rows,
                     calls, FALSE)

\* processEvents once startLedger is known (lines 88-109): the configuration
\* check, then the getEvents call; old holds the record r replaces in runs
AfterStart(r, old) ==
    IF ~configured
    THEN EndCycle(r, old, "unconfigured", lastProcessedLedger, log, notified, FALSE)
    ELSE /\ runs' = (runs \ old) \cup {[r EXCEPT !.pc = "fetch"]}
         /\ isProcessing' = TRUE
         /\ isPolling' = IF r.driver = "interval" THEN TRUE ELSE isPolling
         /\ done' = NoCycle
         /\ UNCHANGED <<lastProcessedLedger, escaped, log, notified>>

\* the start ledger after checkpoint cp (line 85)
NextStartSame(cp) == cp

NextStart(cp) == cp + 1

\* pollEvents past its guard (lines 67-86); of a cycle whose fetch failed the
\* outcome and the start ledger stay in done until the start ledger of this one
\* is known
StartCycle(d) ==
    LET r == [driver |-> d, pc |-> "latest", start |-> Null, resp |-> <<>>,
              latest |-> Null, at |-> 0, failedAt |-> 0, notifyFailedAt |-> 0,
              cpBefore |-> lastProcessedLedger,
              logBefore |-> Len(log), callsBefore |-> Len(notified), ticked |-> FALSE]
    IN IF TruthyNum(lastProcessedLedger)
       THEN AfterStart([r EXCEPT !.start = NextStart(lastProcessedLedger)], {})
       ELSE /\ runs' = runs \cup {r}
            /\ isProcessing' = TRUE
            /\ isPolling' = IF d = "interval" THEN TRUE ELSE isPolling
            /\ done' = IF done.outcome = "fetch_failed"
                       THEN [NoCycle EXCEPT !.outcome = "fetch_failed", !.start = done.start]
                       ELSE NoCycle
            /\ UNCHANGED <<lastProcessedLedger, escaped, log, notified>>

\* a timer fires: the @Cron job (mounted once the application has bootstrapped,
\* stopped at shutdown) or the setInterval callback of startPolling
Tick(d) ==
    /\ d = "cron" => phase = "ready"
    /\ d = "interval" => intervalActive
    /\ IF (d = "interval" /\ isPolling) \/ PollEventsSkips
       THEN /\ runs' = {[r EXCEPT !.ticked = TRUE] : r \in runs}
            /\ UNCHANGED <<lastProcessedLedger, isProcessing, isPolling, done, escaped,
                           log, notified>>
       ELSE StartCycle(d)
    /\ UNCHANGED <<chain, head, configured, view, pollingInterval, intervalActive, phase,
                   firstStart>>

\* server.getLatestLedger() returns or rejects (lines 214-222)
LatestReturn(r, ok) ==
    /\ r \in runs /\ r.pc = "latest"
    /\ IF ok
       THEN AfterStart([r EXCEPT !.start = head], {r})
       ELSE FailCycle(r, {r}, "latest_failed")
    /\ UNCHANGED <<chain, head, configured, view, pollingInterval, intervalActive, phase,
                   firstStart>>

\* server.getEvents() returns or rejects (lines 100-121)
FetchReturn(r, ok) ==
    /\ r \in runs /\ r.pc = "fetch"
    /\ IF ok
       THEN /\ \E got \in {[r EXCEPT !.resp = GetEventsPage(r.start, PageLimit),
                                      !.latest = head]} :
                   ContinueLoop(got, {r}, log, notified)
            /\ firstStart' = IF firstStart = Null THEN r.start ELSE firstStart
       ELSE /\ FailCycle(r, {r}, "fetch_failed")
            /\ UNCHANGED firstStart
    /\ UNCHANGED <<chain, head, configured, view, pollingInterval, intervalActive, phase>>

\* eventLogRepository.save() returns or rejects (lines 155-169); on success
\* dispatchNotification runs: it awaits its call into NotificationsService, or
\* makes none and the loop goes on
SaveReturn(r, ok) ==
    LET calls == DispatchNotification(InjectedParse(chain[r.resp[r.at]])) IN
    /\ r \in runs /\ r.pc = "save"
    /\ IF ok
       THEN /\ Len(log) < MaxLog
            /\ \E rows \in {SaveRow(log, RowOf(r.resp[r.at]))} :
                  IF ~DispatchAfterSave(TRUE) \/ calls = <<>>
                  THEN ContinueLoop(r, {r}, rows, notified)
                  ELSE /\ runs' = (runs \ {r}) \cup {[r EXCEPT !.pc = "notify"]}
                       /\ log' = rows
                       /\ UNCHANGED <<notified, lastProcessedLedger, isProcessing, isPolling,
                                      done, escaped>>
       ELSE \E failed \in {[r EXCEPT !.failedAt = r.at]} :
               IF DispatchAfterSave(FALSE) /\ calls # <<>>
               THEN /\ runs' = (runs \ {r}) \cup {[failed EXCEPT !.pc = "notify"]}
                    /\ UNCHANGED <<log, notified, lastProcessedLedger, isProcessing,
                                   isPolling, done, escaped>>
               ELSE IF PersistEventRethrows(TRUE)
               THEN FailCycle(failed, {r}, "save_failed")
               ELSE ContinueLoop(failed, {r}, log, notified)
    /\ UNCHANGED <<chain, head, configured, view, pollingInterval, intervalActive, phase,
                   firstStart>>

\* the call into NotificationsService returns or rejects (lines 176-209); a
\* rejection reaches the catch of dispatchNotification, then that of persistEvent
NotifyReturn(r, ok) ==
    /\ r \in runs /\ r.pc = "notify"
    /\ IF ok
       THEN \E calls \in {notified
                             \o DispatchNotification(InjectedParse(chain[r.resp[r.at]]))} :
               ContinueLoop(r, {r}, log, calls)
       ELSE \E failed \in {[r EXCEPT !.notifyFailedAt = r.at]} :
               IF PersistEventRethrows(DispatchNotificationRethrows(TRUE))
               THEN FailCycle(failed, {r}, "notify_failed")
               ELSE ContinueLoop(failed, {r}, log, notified)
    /\ UNCHANGED <<chain, head, configured, view, pollingInterval, intervalActive, phase,
                   firstStart>>

----------------------------------------------------------------------------
(* Lifecycle *)

\* loadLastProcessedLedger: the value assigned when the MAX query returned m
Loaded(cur, m) == IF TruthyNum(m) THEN m ELSE Null

\* the MAX(ledger) query of loadLastProcessedLedger returns or rejects (lines
\* 227-244) and onModuleInit completes
LoadReturn(ok) ==
    /\ phase = "loading"
    /\ lastProcessedLedger' =
         IF ok THEN Loaded(lastProcessedLedger, MaxLedgerOf(log)) ELSE Null
    /\ phase' = "ready"
    /\ UNCHANGED <<chain, head, configured, view, log, notified, isProcessing, isPolling,
                   pollingInterval, intervalActive, runs, done, firstStart,
                   escaped>>

\* onModuleDestroy (lines 48-53)
OnModuleDestroy ==
    /\ phase = "ready"
    /\ phase' = "destroyed"
    /\ intervalActive' = IF pollingInterval THEN FALSE ELSE intervalActive
    /\ UNCHANGED <<chain, head, configured, view, log, notified, lastProcessedLedger,
                   isProcessing, isPolling, pollingInterval, runs, done,
                   firstStart, escaped>>

\* the process stops at any point and is started again: a new IndexerService
\* (field initialisers, lines 19-22) whose onModuleInit runs up to its await
\* (lines 31-41); the table and the chain persist, and a save that was in flight
\* has reached the table (commit) or not
Restart(commit) ==
    /\ IF commit
       THEN \E r \in runs : /\ r.pc = "save"
                            /\ Len(log) < MaxLog
                            /\ log' = SaveRow(log, RowOf(r.resp[r.at]))
       ELSE UNCHANGED log
    /\ lastProcessedLedger' = Null
    /\ isProcessing' = FALSE
    /\ isPolling' = FALSE
    /\ pollingInterval' = FALSE
    /\ intervalActive' = TRUE
    /\ phase' = "loading"
    /\ runs' = {}
    /\ done' = IF done.outcome \in {"ok", "prior_ok"}
               THEN [NoCycle EXCEPT !.outcome = "prior_ok", !.cpAfter = done.cpAfter]
               ELSE NoCycle
    /\ view' = Idle
    /\ UNCHANGED <<chain, head, configured, notified, firstStart, escaped>>

\* getStatus, getEventsByType, getEventsByContract (lines 258-316) seen from the
\* poller: count and select queries only
Query ==
    UNCHANGED vars

\* the status a query other than getStatus leaves in view
NoStatus == [isRunning |-> FALSE, lastProcessedLedger |-> Null,
             totalEventsIndexed |-> 0, latestEventLedger |-> Null]

\* the arguments a query other than getEventsByType / getEventsByContract leaves
NoArgs == [eventType |-> "", contractId |-> "", startLedger |-> Null,
           endLedger |-> Null, limit |-> 0]

\* what the poller holds besides the state of the read queries
pollerVars == <<chain, head, configured, log, notified, lastProcessedLedger, isProcessing,
                isPolling, pollingInterval, intervalActive, phase, runs, done,
                firstStart, escaped>>

\* getStatus is called and its count() is answered (line 302)
StatusCount ==
    /\ view.pc # "status"
    /\ phase # "loading"
    /\ view' = [pc |-> "status", eventCount |-> Count(log)]
    /\ UNCHANGED pollerVars

\* the getOne() of getStatus is answered and getStatus returns (lines 303-315)
StatusReturn ==
    /\ view.pc = "status"
    /\ view' = [pc |-> "returned", op |-> "getStatus", args |-> NoArgs,
                status |-> StatusOf(lastProcessedLedger, view.eventCount, LatestEvent(log)),
                rows |-> <<>>]
    /\ UNCHANGED pollerVars

\* getEventsByType is called and its query is answered (lines 258-280)
GetEventsByType(eventType, startLedger, endLedger, limit) ==
    /\ view.pc # "status"
    /\ phase # "loading"
    /\ view' = [pc |-> "returned", op |-> "getEventsByType",
                args |-> [NoArgs EXCEPT !.eventType = eventType, !.startLedger = startLedger,
                                        !.endLedger = endLedger, !.limit = limit],
                status |-> NoStatus,
                rows |-> EventsByType(log, eventType, startLedger, endLedger, limit)]
    /\ UNCHANGED pollerVars

\* getEventsByContract is called and its query is answered (lines 285-296)
GetEventsByContract(contractId, limit) ==
    /\ view.pc # "status"
    /\ phase # "loading"
    /\ view' = [pc |-> "returned", op |-> "getEventsByContract",
                args |-> [NoArgs EXCEPT !.contractId = contractId, !.limit = limit],
                status |-> NoStatus,
                rows |-> EventsByContract(log, contractId, limit)]
    /\ UNCHANGED pollerVars

----------------------------------------------------------------------------
(* Environment *)

\* the events a closing ledger can carry
LedgerBatches(room) ==
    {<<>>} \cup (IF room >= 1 THEN {<<t>> : t \in Emissions} ELSE {})
           \cup (IF room >= 2 THEN {<<t, u>> : t \in Emissions, u \in Emissions} ELSE {})
           \cup (IF room >= 3
                 THEN {<<t, u, v>> : t \in Emissions, u \in Emissions, v \in Emissions}
                 ELSE {})

\* ledger head + 1 closes with the emissions batch of the watched contracts
CloseLedger(batch) ==
    /\ head < MaxLedger
    /\ head' = head + 1
    /\ chain' = chain \o [k \in 1..Len(batch) |->
                            [contractId  |-> batch[k].contractId,
                             ledger      |-> head + 1,
                             topic       |-> batch[k].topic,
                             valueIsXdr  |-> TRUE,
                             txHash      |-> Hash(Len(chain) + k),
                             createdAt   |-> head + 1,
                             pagingToken |-> [toid |-> Len(chain) + k, idx |-> 0]]]
    /\ UNCHANGED <<configured, view, log, notified, lastProcessedLedger, isProcessing,
                   isPolling, pollingInterval, intervalActive, phase, runs, done,
                   firstStart, escaped>>

----------------------------------------------------------------------------
(* Specification *)

\* a started process: the constructor has run and onModuleInit awaits the load
Init ==
    /\ chain = <<>>
    /\ head = 1
    /\ configured \in BOOLEAN
    /\ log = <<>>
    /\ notified = <<>>
    /\ lastProcessedLedger = Null
    /\ isProcessing = FALSE
    /\ isPolling = FALSE
    /\ pollingInterval = FALSE
    /\ intervalActive = TRUE
    /\ phase = "loading"
    /\ runs = {}
    /\ done = NoCycle
    /\ firstStart = Null
    /\ escaped = FALSE
    /\ view = Idle

Next ==
    \/ \E d \in Drivers : Tick(d)
    \/ \E r \in runs, ok \in BOOLEAN : LatestReturn(r, ok)
    \/ \E r \in runs, ok \in BOOLEAN : FetchReturn(r, ok)
    \/ \E r \in runs, ok \in BOOLEAN : SaveReturn(r, ok)
    \/ \E ok \in BOOLEAN : LoadReturn(ok)
    \/ OnModuleDestroy
    \/ \E commit \in BOOLEAN : Restart(commit)
    \/ Query
    \/ \E batch \in LedgerBatches(MaxEvents - Len(chain)) : CloseLedger(batch)

Spec == Init /\ [][Next]_vars

\* the awaited external calls of a running cycle return
Returns ==
    \E r \in runs, ok \in BOOLEAN :
        LatestReturn(r, ok) \/ FetchReturn(r, ok) \/ SaveReturn(r, ok)

\* every awaited call returns, with a result or an error
FairSpec ==
    /\ Spec
    /\ WF_vars(Returns)
    /\ WF_vars(\E ok \in BOOLEAN : LoadReturn(ok))

\* one process lifetime in which no external call fails
NextLive ==
    \/ \E d \in Drivers : Tick(d)
    \/ \E r \in runs : LatestReturn(r, TRUE)
    \/ \E r \in runs : FetchReturn(r, TRUE)
    \/ \E r \in runs : SaveReturn(r, TRUE)
    \/ LoadReturn(TRUE)
    \/ \E batch \in LedgerBatches(MaxEvents - Len(chain)) : CloseLedger(batch)

\* one process lifetime in which the timers keep firing and every awaited call
\* returns its result
LiveSpec ==
    /\ Init /\ [][NextLive]_vars
    /\ WF_vars(\E d \in Drivers : Tick(d))
    /\ WF_vars(\E r \in runs : LatestReturn(r, TRUE))
    /\ WF_vars(\E r \in runs : FetchReturn(r, TRUE))
    /\ WF_vars(\E r \in runs : SaveReturn(r, TRUE))
    /\ WF_vars(LoadReturn(TRUE))

\* one process lifetime: the process is never started again
LifetimeNext ==
    \/ \E d \in Drivers : Tick(d)
    \/ \E r \in runs, ok \in BOOLEAN : LatestReturn(r, ok)
    \/ \E r \in runs, ok \in BOOLEAN : FetchReturn(r, ok)
    \/ \E r \in runs, ok \in BOOLEAN : SaveReturn(r, ok)
    \/ \E ok \in BOOLEAN : LoadReturn(ok)
    \/ OnModuleDestroy
    \/ \E batch \in LedgerBatches(MaxEvents - Len(chain)) : CloseLedger(batch)

LifetimeSpec == Init /\ [][LifetimeNext]_vars

----------------------------------------------------------------------------
(* The poller behind a substituted parser *)

\* the kinds dispatchNotification has no branch for
UnroutedKinds == {"call_created", "admin_changed", "outcome_manager_changed",
                  "outcome_finalized", "initialized"}

\* a payload that holds every name dispatchNotification reads
AllNotifyFields ==
    [call_creator |-> Str("GCREATOR"), backer |-> Str("GBACKER"), call_id |-> Num(1),
     creator |-> Str("GCREATOR"), winner |-> Str("GWINNER")]

\* ParsedEvents (interface ParsedEvent, eventData: any) a substituted parser
\* returns, with the payload names dispatchNotification reads, for the routed
\* kinds and for the others; NoEvent is null
StubPayloads ==
    { [eventType |-> "stake_added",
       eventData |-> [call_creator |-> Str("GCREATOR"), backer |-> Str("GBACKER"),
                      call_id |-> Num(1)]],
      [eventType |-> "stake_added",
       eventData |-> [call_creator |-> Str("GCREATOR"), backer |-> Str("GBACKER"),
                      call_id |-> Num(0)]],
      [eventType |-> "call_resolved",
       eventData |-> [creator |-> Str("GCREATOR"), call_id |-> Num(1)]],
      [eventType |-> "call_settled",
       eventData |-> [winner |-> Str("GWINNER"), call_id |-> Num(1)]],
      [eventType |-> "call_settled",
       eventData |-> [call_id |-> Num(1)]],
      [eventType |-> "admin_changed",
       eventData |-> [oldAdmin |-> Str("GOLD"), newAdmin |-> Str("GNEW")]],
      NoEvent }
    \cup { [eventType |-> kind, eventData |-> AllNotifyFields] : kind \in UnroutedKinds }

\* the raw event at position k of ledger 1 that the substituted parser answers with p
StubEvent(k, p) ==
    LET token == [toid |-> k, idx |-> 0] IN
    [contractId  |-> "CREGISTRY",
     ledger      |-> 1,
     topic       |-> <<>>,
     valueIsXdr  |-> TRUE,
     txHash      |-> Hash(k),
     createdAt   |-> 1,
     pagingToken |-> token,
     stub        |-> IF p = NoEvent THEN NoEvent
                     ELSE [contractId |-> "CREGISTRY", eventType |-> p.eventType,
                           ledger |-> 1, txHash |-> Hash(k), txOrder |-> token,
                           timestamp |-> [date |-> 1], eventData |-> p.eventData]]

\* a started process whose ledger 1 holds two events of the substituted parser
RouterInit ==
    /\ chain \in {<<StubEvent(1, p), StubEvent(2, q)>> : p \in StubPayloads, q \in StubPayloads}
    /\ head = 1
    /\ configured = TRUE
    /\ log = <<>>
    /\ notified = <<>>
    /\ lastProcessedLedger = Null
    /\ isProcessing = FALSE
    /\ isPolling = FALSE
    /\ pollingInterval = FALSE
    /\ intervalActive = TRUE
    /\ phase = "loading"
    /\ runs = {}
    /\ done = NoCycle
    /\ firstStart = Null
    /\ escaped = FALSE
    /\ view = Idle

RouterNext ==
    \/ \E d \in Drivers : Tick(d)
    \/ \E r \in runs, ok \in BOOLEAN : LatestReturn(r, ok)
    \/ \E r \in runs, ok \in BOOLEAN : FetchReturn(r, ok)
    \/ \E r \in runs, ok \in BOOLEAN : SaveReturn(r, ok)
    \/ \E r \in runs, ok \in BOOLEAN : NotifyReturn(r, ok)
    \/ \E ok \in BOOLEAN : LoadReturn(ok)

RouterSpec == RouterInit /\ [][RouterNext]_vars

----------------------------------------------------------------------------
(* The poller over the raw events a ledger can hand to the parser *)

\* a topic value of the type a payload position expects
Sample(type) ==
    CASE type \in {"u64", "u32"} -> Num(1)
      [] type = "i128"            -> Num(10)
      [] type = "addr"            -> Str("GADDR")
      [] type = "bytes"           -> Str("ab")

\* the positions of a kind that go through Number()
NumericType(type) == type \in {"u64", "u32"}

\* the topic list of a well-formed event of a kind: its name, then one value of
\* the expected type per payload position
WellFormedTopics(kind) ==
    <<Str(kind)>> \o [k \in 1..Len(KindFields(kind)) |-> Sample(KindFields(kind)[k][2])]

\* topic list t with the value at topic position k (0-based) replaced by v
WithTopic(t, k, v) == [t EXCEPT ![k + 1] = v]

\* the topic lists fed to the parser: per kind the well-formed list, the one with
\* call id 0, every list cut short, and every list with a non-numeric string in
\* a numeric position; lists that name no kind, and the empty list
RawTopics ==
    LET wf(kind) == WellFormedTopics(kind)
        fs(kind) == KindFields(kind)
    IN UNION { {wf(kind)}
               \cup {WithTopic(wf(kind), 1, Num(0))}
               \cup {SubSeq(wf(kind), 1, n) : n \in 1..Len(fs(kind))}
               \cup {WithTopic(wf(kind), k, Str("abc")) :
                        k \in {j \in 1..Len(fs(kind)) : NumericType(fs(kind)[j][2])}}
             : kind \in EventTypes }
       \cup { <<Str("fee_changed"), Num(5)>>, <<Str("finalized"), Num(1)>>,
              <<Num(7)>>, <<>> }

\* the raw event of ledger 1 with topic list t, and a value blob that is base64
\* XDR or not
RawEvent(t, xdr) ==
    [contractId  |-> "CREGISTRY",
     ledger      |-> 1,
     topic       |-> t,
     valueIsXdr  |-> xdr,
     txHash      |-> Hash(1),
     createdAt   |-> 1,
     pagingToken |-> [toid |-> 1, idx |-> 0]]

\* a started process whose ledger 1 holds one raw event
DecodeInit ==
    /\ chain \in {<<RawEvent(t, xdr)>> : t \in RawTopics, xdr \in BOOLEAN}
    /\ head = 1
    /\ configured = TRUE
    /\ log = <<>>
    /\ notified = <<>>
    /\ lastProcessedLedger = Null
    /\ isProcessing = FALSE
    /\ isPolling = FALSE
    /\ pollingInterval = FALSE
    /\ intervalActive = TRUE
    /\ phase = "loading"
    /\ runs = {}
    /\ done = NoCycle
    /\ firstStart = Null
    /\ escaped = FALSE
    /\ view = Idle

DecodeNext ==
    \/ \E d \in Drivers : Tick(d)
    \/ \E r \in runs, ok \in BOOLEAN : LatestReturn(r, ok)
    \/ \E r \in runs, ok \in BOOLEAN : FetchReturn(r, ok)
    \/ \E r \in runs, ok \in BOOLEAN : SaveReturn(r, ok)
    \/ \E ok \in BOOLEAN : LoadReturn(ok)

DecodeSpec == DecodeInit /\ [][DecodeNext]_vars

----------------------------------------------------------------------------
(* The poller over batches that hold events the parser does not decode *)

\* the raw event at position k of ledger 1 with topic list t
RawEventAt(k, t, xdr) ==
    [contractId  |-> "CREGISTRY",
     ledger      |-> 1,
     topic       |-> t,
     valueIsXdr  |-> xdr,
     txHash      |-> Hash(k),
     createdAt   |-> 1,
     pagingToken |-> [toid |-> k, idx |-> 0]]

\* topic list and value blob of the events of a batch: two well-formed events,
\* an event of an unknown kind, a stake_added event cut short (parseAddress
\* throws), an event without topics, and a call_created event whose value blob
\* is not XDR (ScVal.fromXDR throws)
BatchEvents ==
    { <<WellFormedTopics("stake_added"), TRUE>>,
      <<WellFormedTopics("call_settled"), TRUE>>,
      <<<<Str("fee_changed"), Num(5)>>, TRUE>>,
      <<SubSeq(WellFormedTopics("stake_added"), 1, 2), TRUE>>,
      <<<<>>, TRUE>>,
      <<WellFormedTopics("call_created"), FALSE>> }

\* a started process whose ledger 1 holds two raw events
BatchInit ==
    /\ chain \in {<<RawEventAt(1, a[1], a[2]), RawEventAt(2, b[1], b[2])>> :
                     a \in BatchEvents, b \in BatchEvents}
    /\ head = 1
    /\ configured = TRUE
    /\ log = <<>>
    /\ notified = <<>>
    /\ lastProcessedLedger = Null
    /\ isProcessing = FALSE
    /\ isPolling = FALSE
    /\ pollingInterval = FALSE
    /\ intervalActive = TRUE
    /\ phase = "loading"
    /\ runs = {}
    /\ done = NoCycle
    /\ firstStart = Null
    /\ escaped = FALSE
    /\ view = Idle

BatchSpec == BatchInit /\ [][DecodeNext]_vars

----------------------------------------------------------------------------
(* The poller started again after a crash in the middle of a batch *)

\* the rows the crashed process had stored: the first CrashedAfter events of the
\* batch of ledger 1
CrashedAfter == 1

\* a process started after the one before it crashed: ledger 1 holds two
\* stake_added events, the crashed process (cold start at ledger 1) had stored
\* the first of them and was stopped before the save of the second
CrashInit ==
    /\ chain = [k \in 1..2 |->
                  [contractId  |-> "CREGISTRY",
                   ledger      |-> 1,
                   topic       |-> <<Str("stake_added"), Num(1), Str("GSTAKER"), Num(10), Num(1)>>,
                   valueIsXdr  |-> TRUE,
                   txHash      |-> Hash(k),
                   createdAt   |-> 1,
                   pagingToken |-> [toid |-> k, idx |-> 0]]]
    /\ head \in {1, 2}
    /\ configured = TRUE
    /\ log = [k \in 1..CrashedAfter |-> EventLogOf(ParseEvent(chain[k]))]
    /\ notified = <<>>
    /\ lastProcessedLedger = Null
    /\ isProcessing = FALSE
    /\ isPolling = FALSE
    /\ pollingInterval = FALSE
    /\ intervalActive = TRUE
    /\ phase = "loading"
    /\ runs = {}
    /\ done = NoCycle
    /\ firstStart = Null
    /\ escaped = FALSE
    /\ view = Idle

\* one lifetime of that process
CrashNext ==
    \/ \E d \in Drivers : Tick(d)
    \/ \E r \in runs, ok \in BOOLEAN : LatestReturn(r, ok)
    \/ \E r \in runs, ok \in BOOLEAN : FetchReturn(r, ok)
    \/ \E r \in runs, ok \in BOOLEAN : SaveReturn(r, ok)
    \/ \E ok \in BOOLEAN : LoadReturn(ok)
    \/ \E batch \in LedgerBatches(MaxEvents - Len(chain)) : CloseLedger(batch)

CrashSpec == CrashInit /\ [][CrashNext]_vars

----------------------------------------------------------------------------
(* The poller and the read queries *)

\* the call registry emits a stake_added event, the outcome manager a finalized one
QueryEmissions ==
    { Emission("CREGISTRY", <<Str("stake_added"), Num(1), Str("GSTAKER"), Num(10), Num(1)>>),
      Emission("COUTCOME", <<Str("finalized"), Num(1)>>) }

\* a started process; ledger 1 holds no event or one
QueryInit ==
    /\ chain \in {<<>>} \cup {<<[contractId  |-> e.contractId,
                                  ledger      |-> 1,
                                  topic       |-> e.topic,
                                  valueIsXdr  |-> TRUE,
                                  txHash      |-> Hash(1),
                                  createdAt   |-> 1,
                                  pagingToken |-> [toid |-> 1, idx |-> 0]]>> :
                                e \in QueryEmissions}
    /\ head = 1
    /\ configured = TRUE
    /\ log = <<>>
    /\ notified = <<>>
    /\ lastProcessedLedger = Null
    /\ isProcessing = FALSE
    /\ isPolling = FALSE
    /\ pollingInterval = FALSE
    /\ intervalActive = TRUE
    /\ phase = "loading"
    /\ runs = {}
    /\ done = NoCycle
    /\ firstStart = Null
    /\ escaped = FALSE
    /\ view = Idle

\* the kinds, ledgers and limits the queries are called with
QueryTypes == {"stake_added", "outcome_finalized"}

\* startLedger: undefined or 2; endLedger: undefined or 1
QueryStarts == {Null, 2}

QueryEnds == {Null, 1}

QueryLimits == {1, MaxLog}

\* the poller, whose RPC calls succeed and whose saves succeed or fail, one event
\* per closing ledger, and the read queries
QueryNext ==
    \/ \E d \in Drivers : Tick(d)
    \/ \E r \in runs : LatestReturn(r, TRUE)
    \/ \E r \in runs : FetchReturn(r, TRUE)
    \/ \E r \in runs, ok \in BOOLEAN : SaveReturn(r, ok)
    \/ LoadReturn(TRUE)
    \/ \E e \in QueryEmissions : Len(chain) < MaxEvents /\ CloseLedger(<<e>>)
    \/ StatusCount
    \/ StatusReturn
    \/ \E t \in QueryTypes, a \in QueryStarts, b \in QueryEnds, n \in QueryLimits :
          GetEventsByType(t, a, b, n)
    \/ \E c \in ContractIds, n \in QueryLimits : GetEventsByContract(c, n)

QuerySpec == QueryInit /\ [][QueryNext]_vars

----------------------------------------------------------------------------
(* Properties *)

Range(s) == {s[k] : k \in 1..Len(s)}

\* a cycle of this process has ended
CycleEnded == done.outcome \notin {"none", "prior_ok"}

\* C1 -- Single-flight: at most one execution of processEvents is in progress,
\* whichever timer fired, and a tick that arrives while a cycle runs issues no
\* RPC call, appends no record and changes neither the checkpoint nor
\* isProcessing.
C1_SingleFlight ==
    [][ /\ Cardinality(runs') <= 1
        /\ ((\E d \in Drivers : Tick(d)) /\ runs # {}) =>
              /\ {[r EXCEPT !.ticked = FALSE] : r \in runs'}
                   = {[r EXCEPT !.ticked = FALSE] : r \in runs}
              /\ UNCHANGED <<log, notified, lastProcessedLedger, isProcessing>> ]_vars

\* a tick arrived while a cycle was running
C1_Witness == \E r \in runs : r.ticked

\* C2 -- The checkpoint never decreases across a cycle, whatever the cycle's
\* outcome, and a non-null checkpoint never becomes null (Null is below every
\* ledger).
C2_CheckpointMonotone == CycleEnded => done.cpAfter >= done.cpBefore

\* C3 -- Whenever a cycle sets the checkpoint to L, every event with a ledger in
\* [start, L] was in that cycle's getEvents response.
C3_AdvanceCoversFetched ==
    (done.outcome = "ok" /\ done.wrote) =>
        \A k \in 1..Len(chain) :
            (done.start <= chain[k].ledger /\ chain[k].ledger <= done.cpAfter)
                => k \in Range(done.resp)

\* raw event k is decodable and was emitted at or after the first start ledger
Owed(k) ==
    /\ k <= Len(chain)
    /\ Decodable(chain[k])
    /\ firstStart # Null
    /\ chain[k].ledger >= firstStart

\* the log holds a row made from raw event k
Stored(k) ==
    /\ k <= Len(chain)
    /\ Decodable(chain[k])
    /\ \E j \in 1..Len(log) : log[j] = RowOf(k)

\* C4 -- At-least-once ingestion: every decodable event emitted at or after the
\* first start ledger is eventually appended to the log (as long as the table
\* accepts rows), when ticks keep firing and failures are transient.
C4_AtLeastOnce ==
    \A k \in 1..MaxEvents : Owed(k) ~> (Stored(k) \/ Len(log) >= MaxLog)

RECURSIVE DecodedRows(_, _)
\* the rows of the decodable events among the first n events of resp, in order
DecodedRows(resp, n) ==
    IF n = 0 THEN <<>>
    ELSE DecodedRows(resp, n - 1)
         \o (IF Decodable(chain[resp[n]]) THEN <<RowOf(resp[n])>> ELSE <<>>)

\* the rows the cycle that ended last appended
Appended == SubSeq(log, done.logBefore + 1, done.logAfter)

RECURSIVE DecodedCalls(_, _)
\* the notification calls dispatchNotification makes for those events, in order
DecodedCalls(resp, n) ==
    IF n = 0 THEN <<>>
    ELSE DecodedCalls(resp, n - 1)
         \o (IF Decodable(chain[resp[n]])
             THEN DispatchNotification(InjectedParse(chain[resp[n]])) ELSE <<>>)

\* C5 -- Persistence failure: when the save of the event at position J of the
\* batch fails, the cycle appends exactly the rows of the decodable events before
\* J, in order, and makes exactly their notification calls: nothing is saved or
\* notified for J and the events after it; the cycle does not assign the
\* checkpoint, and pollEvents does not reject.
C5_PersistenceFailure ==
    done.failedAt # 0 =>
        /\ Appended = DecodedRows(done.resp, done.failedAt - 1)
        /\ done.calls = Len(DecodedCalls(done.resp, done.failedAt - 1))
        /\ ~done.wrote
        /\ ~done.threw

\* a save failed after the cycle had stored an earlier event of the batch
C5_Witness ==
    /\ done.outcome = "save_failed"
    /\ done.failedAt >= 2
    /\ done.logAfter > done.logBefore

\* C6 -- Fetch failure: when getLatestLedger or getEvents fails, the cycle ends
\* without assigning the checkpoint, appending a record or calling the
\* notification interface, and pollEvents does not reject.
C6_FetchFailure ==
    done.outcome \in {"latest_failed", "fetch_failed"} =>
        /\ ~done.wrote
        /\ done.logAfter = done.logBefore
        /\ done.calls = 0
        /\ ~done.threw

\* a getEvents call failed in a cycle that started from a checkpoint
C6_Witness == done.outcome = "fetch_failed" /\ done.cpBefore # Null

\* C7 -- No error stalls the poller: while no execution is in progress both
\* flags are false, so the next tick starts a cycle, and every cycle whose calls
\* return ends with the flags reset.
C7_NoStall ==
    /\ [](runs = {} => ~isProcessing /\ ~isPolling)
    /\ (isProcessing ~> ~isProcessing)
    /\ (isPolling ~> ~isPolling)

\* a cycle has failed and left the poller idle
C7_Witness ==
    /\ done.outcome \in {"latest_failed", "fetch_failed", "save_failed"}
    /\ runs = {}
    /\ ~isProcessing

\* the events the log must hold for ledger m to be a complete checkpoint
CompleteUpTo(m) ==
    \A k \in 1..Len(chain) :
        (Decodable(chain[k]) /\ firstStart # Null /\ firstStart <= chain[k].ledger
           /\ chain[k].ledger <= m) => Stored(k)

\* C8 -- Resumption is complete: the checkpoint loadLastProcessedLedger loads at
\* a start of the process (before any cycle of the new process has begun) is a
\* ledger up to which every decodable event, from the first start ledger on, is in
\* the log.
C8_ResumptionComplete ==
    [][ (phase = "loading" /\ phase' = "ready" /\ runs = {} /\ ~CycleEnded
           /\ lastProcessedLedger' # Null)
            => CompleteUpTo(lastProcessedLedger') ]_vars

\* C9 -- The checkpoint survives a restart: the value loaded at startup (before
\* any cycle of the new process has begun) equals the checkpoint the poller held
\* after its last successful cycle before the restart.
C9_CheckpointRoundTrip ==
    [][ (phase = "loading" /\ phase' = "ready" /\ runs = {}
           /\ done.outcome = "prior_ok"
           /\ lastProcessedLedger' = Loaded(lastProcessedLedger, MaxLedgerOf(log)))
            => lastProcessedLedger' = done.cpAfter ]_vars

\* C10 -- The event log is append-only: every step leaves the rows stored so far
\* in place and unchanged.
C10_AppendOnly == [][IsPrefix(log, log')]_vars

\* the log holds two rows and the process has been shut down after a cycle
C10_Witness == Len(log) >= 2 /\ phase = "destroyed" /\ CycleEnded

\* C11 -- Ordering invariant: no two distinct records of the log that belong to
\* the same contract have the same (ledger, txOrder) pair.
C11_TotalOrder ==
    \A i, j \in 1..Len(log) :
        (i # j /\ log[i].contractId = log[j].contractId)
            => <<log[i].ledger, log[i].txOrder>> # <<log[j].ledger, log[j].txOrder>>

\* C12 -- Notification failure isolation: when a call into NotificationsService
\* fails in a cycle (and no save does), pollEvents does not reject, the cycle ends
\* normally with the rows of all decodable events of the batch appended, the one
\* whose notification failed included, and the checkpoint is set to the
\* response's latestLedger (the head: no ledger closes here).
C12_NotificationIsolation ==
    (done.notifyFailedAt # 0 /\ done.failedAt = 0) =>
        /\ done.outcome = "ok"
        /\ ~done.threw
        /\ Appended = DecodedRows(done.resp, Len(done.resp))
        /\ done.cpAfter = head

\* the notification of the first event of a batch failed and the cycle went on
\* to store the second event and advance the checkpoint
C12_Witness ==
    /\ done.notifyFailedAt = 1
    /\ done.outcome = "ok"
    /\ done.logAfter = done.logBefore + 2
    /\ done.wrote

\* the events of the chain that a getEvents response has handed to parseEvent
Fed == Range(done.resp) \cup UNION {Range(r.resp) : r \in runs}

\* the names of the eight kinds of EventType
KnownNames == {Str(kind) : kind \in EventTypes}

\* the kind a raw event names, when its first topic is one of KnownNames
KindOf(raw) == CHOOSE kind \in EventTypes : EventName(raw) = Str(kind)

\* a topic value has the type a payload position of that type is emitted with
TypeOk(type, v) ==
    IF type \in {"u64", "u32", "i128"} THEN "num" \in DOMAIN v ELSE "str" \in DOMAIN v

\* a well-formed raw event of a known kind: the topic count and the topic types
\* of the kind
WellFormed(raw) ==
    /\ EventName(raw) \in KnownNames
    /\ Len(raw.topic) = Len(KindFields(KindOf(raw))) + 1
    /\ \A k \in 1..Len(KindFields(KindOf(raw))) :
          TypeOk(KindFields(KindOf(raw))[k][2], TopicAt(raw.topic, k))

\* the notify operation the spec maps a kind to
NotifyOp(kind) ==
    CASE kind = "stake_added"   -> "notifyBackedCall"
      [] kind = "call_resolved" -> "notifyCallEnded"
      [] kind = "call_settled"  -> "notifyPayoutReady"

\* raw event k is a well-formed event of a kind that has a notify operation
NotifyDue(k) ==
    /\ WellFormed(chain[k])
    /\ KindOf(chain[k]) \in {"stake_added", "call_resolved", "call_settled"}

\* C13 -- Notification is skipped only if payload fields are absent: a cycle that
\* ends normally has made, for every well-formed stake_added, call_resolved or
\* call_settled event of its batch (call id 0 included), one call of the kind's
\* notify operation.
C13_NotifiesWellFormed ==
    done.outcome = "ok" =>
        /\ done.calls = Cardinality({k \in Range(done.resp) : NotifyDue(k)})
        /\ \A k \in Range(done.resp) :
              NotifyDue(k) => \E c \in Range(notified) : c.op = NotifyOp(KindOf(chain[k]))

\* C14 -- Unknown kinds decode to none: parseEvent returns a ParsedEvent only
\* when the first topic is one of the eight kind names; for every other first
\* topic, and for an empty topic list, it returns null and nothing is stored.
C14_UnknownKinds ==
    \A k \in Fed :
        /\ ParseEvent(chain[k]) # NoEvent => EventName(chain[k]) \in KnownNames
        /\ (Len(chain[k].topic) = 0 \/ EventName(chain[k]) \notin KnownNames)
              => (ParseEvent(chain[k]) = NoEvent /\ ~Stored(k))

\* the first topics parseEvent dispatches on: the eight kind names and the
\* alias 'finalized' of outcome_finalized
AcceptedNames == KnownNames \cup {Str("finalized")}

\* C14 as amended -- parseEvent returns a ParsedEvent only when the first topic
\* is one of the eight kind names or 'finalized'; for every other first topic,
\* and for an empty topic list, it returns null and nothing is stored.
C14_UnknownKindsAmended ==
    \A k \in Fed :
        /\ ParseEvent(chain[k]) # NoEvent => EventName(chain[k]) \in AcceptedNames
        /\ (Len(chain[k].topic) = 0 \/ EventName(chain[k]) \notin AcceptedNames)
              => (ParseEvent(chain[k]) = NoEvent /\ ~Stored(k))

\* a cycle fetched an event of a kind the parser does not know and ended
\* normally: nothing stored, checkpoint advanced
C14_Witness ==
    /\ done.outcome = "ok"
    /\ done.wrote
    /\ done.logAfter = done.logBefore
    /\ \E k \in Range(done.resp) : EventName(chain[k]) = Str("fee_changed")

\* the payload value the spec defines for a topic value of a position's type:
\* numbers as they are, addresses as they are, i128 as a decimal string, bytes
\* as hex
GoldenField(type, v) ==
    CASE type \in {"u64", "u32"} -> Num(v.num)
      [] type = "addr"            -> Str(v.str)
      [] type = "i128"            -> Str(ToString(v.num))
      [] type = "bytes"           -> [hex |-> v.str]

\* the ParsedEvent the spec defines for a well-formed raw event
Golden(raw) ==
    LET fields == KindFields(KindOf(raw))
        pos(f) == CHOOSE k \in 1..Len(fields) : fields[k][1] = f
    IN [contractId |-> raw.contractId,
        eventType  |-> EventName(raw).str,
        ledger     |-> raw.ledger,
        txHash     |-> raw.txHash,
        txOrder    |-> raw.pagingToken,
        timestamp  |-> [date |-> raw.createdAt],
        eventData  |-> [f \in {fields[k][1] : k \in 1..Len(fields)} |->
                          GoldenField(fields[pos(f)][2], raw.topic[pos(f) + 1])]]

\* C15 -- Golden values: decoding a well-formed raw event of a known kind,
\* whatever its value blob holds, yields the ParsedEvent whose eventType is the
\* first topic and whose payload fields are the values at the kind's topic
\* positions.
C15_GoldenValues ==
    \A k \in Fed : WellFormed(chain[k]) => ParseEvent(chain[k]) = Golden(chain[k])

\* a malformed raw event of a known kind: too few topics, or a value that is not
\* a number in a position that goes through Number()
Malformed(raw) ==
    /\ EventName(raw) \in KnownNames
    /\ \/ Len(raw.topic) < Len(KindFields(KindOf(raw))) + 1
       \/ \E k \in 1..Len(KindFields(KindOf(raw))) :
             /\ NumericType(KindFields(KindOf(raw))[k][2])
             /\ k + 1 <= Len(raw.topic)
             /\ "num" \notin DOMAIN raw.topic[k + 1]

\* the payload of a ParsedEvent holds NaN
HasNaN(parsed) == \E f \in DOMAIN parsed.eventData : parsed.eventData[f] = NaN

\* C16 -- Malformed events decode to none: for a raw event of a known kind with
\* too few topics or a non-numeric value in a numeric position parseEvent
\* returns null, and it never returns a ParsedEvent with a NaN field; nothing is
\* stored for such an event.
C16_MalformedToNone ==
    \A k \in Fed :
        /\ Malformed(chain[k]) => (ParseEvent(chain[k]) = NoEvent /\ ~Stored(k))
        /\ ParseEvent(chain[k]) # NoEvent => ~HasNaN(ParseEvent(chain[k]))

\* the position of the first row equal to x in the sequence s, 0 when there is none
Pos(s, x) ==
    IF \E i \in 1..Len(s) : s[i] = x
    THEN CHOOSE i \in 1..Len(s) : s[i] = x /\ \A j \in 1..(i - 1) : s[j] # x
    ELSE 0

\* the positions of the table whose rows the query q selects
Selected(rows, q) ==
    {i \in 1..Len(rows) :
        IF q.op = "getEventsByContract"
        THEN rows[i].contractId = q.args.contractId
        ELSE /\ rows[i].eventType = q.args.eventType
             /\ q.args.startLedger # Null => rows[i].ledger >= q.args.startLedger
             /\ q.args.endLedger # Null => rows[i].ledger <= q.args.endLedger}

\* this step answers a getEventsByType or getEventsByContract call
RangeQueryAnswered ==
    /\ view' # view
    /\ view'.pc = "returned"
    /\ view'.op \in {"getEventsByType", "getEventsByContract"}

\* C17 -- Range query ordering: for two stored events of the same contract with
\* ledgers L1 < L2 that the query selects, the answer holds both when the limit
\* permits, the L1 record before the L2 record.
C17_RangeQueryAscending ==
    [][ RangeQueryAnswered =>
          \A i, j \in Selected(log, view') :
              (/\ log[i].contractId = log[j].contractId
               /\ log[i].ledger < log[j].ledger
               /\ Cardinality(Selected(log, view')) <= view'.args.limit)
                  => /\ Pos(view'.rows, log[i]) # 0
                     /\ Pos(view'.rows, log[j]) # 0
                     /\ Pos(view'.rows, log[i]) < Pos(view'.rows, log[j]) ]_vars

\* C17 as amended -- for two stored events of the same contract with ledgers
\* L1 < L2 that the query selects, the answer holds both when the limit permits,
\* in descending order: the L2 record before the L1 record.
C17_RangeQueryDescending ==
    [][ RangeQueryAnswered =>
          \A i, j \in Selected(log, view') :
              (/\ log[i].contractId = log[j].contractId
               /\ log[i].ledger < log[j].ledger
               /\ Cardinality(Selected(log, view')) <= view'.args.limit)
                  => /\ Pos(view'.rows, log[i]) # 0
                     /\ Pos(view'.rows, log[j]) # 0
                     /\ Pos(view'.rows, log[j]) < Pos(view'.rows, log[i]) ]_vars

\* getEventsByContract has answered with two records of different ledgers
C17_Witness ==
    /\ view.pc = "returned"
    /\ view.op = "getEventsByContract"
    /\ Len(view.rows) = 2
    /\ view.rows[1].ledger # view.rows[2].ledger

\* C18 -- The status query has no side effects: neither step of getStatus
\* changes the checkpoint, isProcessing or the event log; the count it keeps is
\* the number of rows at the time of its count query, and the object it returns
\* reports that count and the checkpoint the poller holds when it returns.
C18_StatusReadOnly ==
    [][ /\ (view.pc # "status" /\ view'.pc = "status") =>
              /\ UNCHANGED <<lastProcessedLedger, isProcessing, log>>
              /\ view'.eventCount = Len(log)
        /\ (view.pc = "status" /\ view'.pc = "returned") =>
              /\ UNCHANGED <<lastProcessedLedger, isProcessing, log>>
              /\ view'.status.lastProcessedLedger = lastProcessedLedger
              /\ view'.status.totalEventsIndexed = view.eventCount ]_vars

\* getStatus has returned while a cycle was running, after the cycle stored a
\* row between the count query and the return
C18_Witness ==
    /\ view.pc = "returned"
    /\ view.op = "getStatus"
    /\ runs # {}
    /\ view.status.totalEventsIndexed < Len(log)

\* C19 -- Start ledger: a cycle that starts with a checkpoint passes checkpoint
\* + 1 to getEvents and does not call getLatestLedger; a cycle that starts
\* without one passes the head that getLatestLedger returns in that cycle.
C19_StartLedger ==
    [][ \A r \in runs' :
          /\ r.pc = "latest" => r.cpBefore = Null
          /\ (r.pc = "fetch" /\ r.cpBefore # Null) => r.start = r.cpBefore + 1
          /\ (r.pc = "fetch" /\ \E q \in runs : q.pc = "latest") =>
                (r.cpBefore = Null /\ r.start = head) ]_vars

\* a cycle has passed checkpoint + 1 to getEvents after an earlier cycle of the
\* process started without a checkpoint
C19_Witness ==
    /\ firstStart # Null
    /\ \E r \in runs : r.pc = "fetch" /\ r.cpBefore # Null /\ r.start = r.cpBefore + 1

\* C20 -- Retry from the same start: the cycle that follows a cycle whose
\* getEvents call failed passes the failed cycle's start ledger to getEvents.
C20_RetrySameStart ==
    [][ done.outcome = "fetch_failed" =>
          \A r \in runs' : r.pc = "fetch" => r.start = done.start ]_vars

\* response.latestLedger of the cycle that run r is, in the step that ends it: the
\* head the getEvents call returning in this step reports, or the one the run holds
ResponseLatest(r) == IF r.pc = "fetch" THEN head ELSE r.latest

\* this step ends the cycle of run r normally
EndsOk(r) == r \in runs /\ runs' = runs \ {r} /\ done'.outcome = "ok"

\* C21 -- Checkpoint advance rule: a cycle whose fetch and event loop complete
\* without error leaves the checkpoint at the response's latestLedger when that is
\* strictly greater than the checkpoint held before (the one the cycle started
\* with, and the one held when the update runs; Null is below every ledger), and
\* at the checkpoint held before otherwise. Two polls with no new ledger: a cycle
\* that gets no events appends no record; one that starts with checkpoint L and
\* gets latestLedger L leaves the checkpoint at L; and any two such cycles with
\* the same latestLedger end with the same checkpoint, that latestLedger.
C21_AdvanceRule ==
    [][ \A r \in runs : EndsOk(r) =>
          /\ lastProcessedLedger' = IF ResponseLatest(r) > lastProcessedLedger
                                     THEN ResponseLatest(r) ELSE lastProcessedLedger
          /\ lastProcessedLedger' = IF ResponseLatest(r) > r.cpBefore
                                     THEN ResponseLatest(r) ELSE r.cpBefore
          /\ done'.resp = <<>> => log' = log
          /\ ResponseLatest(r) = r.cpBefore => lastProcessedLedger' = r.cpBefore
          /\ lastProcessedLedger' = ResponseLatest(r) ]_vars

\* a second poll with no new ledger has ended: it started from the checkpoint an
\* earlier cycle had set, got no events, and left the checkpoint and the log alone
C21_Witness ==
    /\ done.outcome = "ok"
    /\ done.resp = <<>>
    /\ done.cpBefore # Null
    /\ done.cpAfter = done.cpBefore
    /\ ~done.wrote
    /\ done.logAfter = done.logBefore
    /\ done.cpAfter = head

\* C22 -- A decode failure or unknown kind does not abort the batch: an event for
\* which parseEvent returns null gets no record and no notification, the
\* decodable events of the batch, those after it included, are stored in fetch
\* order (all of them when the cycle ends normally, those before the position of
\* the save in progress while it runs), and the checkpoint is set to the
\* response's latestLedger (the head: no ledger closes here) as for a batch
\* without that event.
C22_DecodeFailureSkipped ==
    /\ \A r \in runs : r.pc = "save" =>
          SubSeq(log, r.logBefore + 1, Len(log)) = DecodedRows(r.resp, r.at - 1)
    /\ done.outcome = "ok" =>
          /\ Appended = DecodedRows(done.resp, Len(done.resp))
          /\ done.calls = Len(DecodedCalls(done.resp, Len(done.resp)))
          /\ done.cpAfter = head

\* a cycle has ended normally whose batch held a stake_added event cut short
\* and, after it, a decodable event: one row stored, checkpoint set
C22_Witness ==
    /\ done.outcome = "ok"
    /\ Len(done.resp) = 2
    /\ EventName(chain[done.resp[1]]) = Str("stake_added")
    /\ ~Decodable(chain[done.resp[1]])
    /\ Decodable(chain[done.resp[2]])
    /\ done.logAfter = done.logBefore + 1
    /\ log[done.logAfter] = RowOf(done.resp[2])
    /\ done.wrote

\* C23 -- Persist-then-notify ordering: a call into NotificationsService for an
\* event starts only in the step in which the save of that event's record
\* returns successfully, and is served only with that record in the rows of its
\* cycle; a save that fails starts no call; and the save of a later event of the
\* batch starts only in the step in which the call for the event before it
\* returns or fails.
C23_PersistThenNotify ==
    [][ /\ \A r \in runs' : (r.pc = "notify" /\ \A q \in runs : q.pc # "notify") =>
              \E q \in runs : /\ q.pc = "save" /\ q.at = r.at /\ q.resp = r.resp
                               /\ log' = Append(log, RowOf(q.resp[q.at]))
        /\ notified' # notified =>
              \E q \in runs : /\ q.pc = "notify"
                               /\ \E j \in (q.logBefore + 1)..Len(log) :
                                     log[j] = RowOf(q.resp[q.at])
        /\ \A q \in runs : (/\ q.pc = "save" /\ log' = log
                           /\ \A r \in runs' : r.pc = "save" => r.at # q.at) =>
              /\ notified' = notified
              /\ \A r \in runs' : r.pc # "notify"
        /\ \A q \in runs, r \in runs' : (q.pc = "notify" /\ r.pc = "save") =>
              /\ r.at > q.at
              /\ \/ notified' = notified
                                   \o DispatchNotification(InjectedParse(chain[q.resp[q.at]]))
                 \/ r.notifyFailedAt = q.at ]_vars

\* the save of the second event of a batch is in progress after the call for the
\* first event has been served
C23_Witness ==
    \E r \in runs : /\ r.pc = "save" /\ r.at = 2
                     /\ Len(notified) = r.callsBefore + 1
                     /\ Len(log) = r.logBefore + 1

\* C24 -- Zero-or-one notification per event: for every event handed to the
\* parser and decoded, dispatchNotification makes at most one call, and none for
\* the kinds call_created, admin_changed, outcome_manager_changed,
\* outcome_finalized and initialized; the calls of a cycle, the one in progress
\* included, never exceed the records the cycle has appended.
C24_ZeroOrOneNotification ==
    /\ \A k \in Fed : Decodable(chain[k]) =>
          /\ Len(DispatchNotification(InjectedParse(chain[k]))) <= 1
          /\ InjectedParse(chain[k]).eventType \in UnroutedKinds =>
                DispatchNotification(InjectedParse(chain[k])) = <<>>
    /\ \A r \in runs :
          /\ (Len(notified) - r.callsBefore) + (IF r.pc = "notify" THEN 1 ELSE 0)
                <= Len(log) - r.logBefore
          /\ r.pc = "notify" => InjectedParse(chain[r.resp[r.at]]).eventType \notin UnroutedKinds
    /\ CycleEnded => done.calls <= done.logAfter - done.logBefore

\* a cycle has ended that stored a call_created event whose payload holds every
\* name dispatchNotification reads, and a stake_added event: two records, one call
C24_Witness ==
    /\ done.outcome = "ok"
    /\ Len(done.resp) = 2
    /\ \A k \in Range(done.resp) : Decodable(chain[k])
    /\ InjectedParse(chain[done.resp[1]]).eventType = "call_created"
    /\ InjectedParse(chain[done.resp[2]]).eventType = "stake_added"
    /\ done.logAfter = done.logBefore + 2
    /\ done.calls = 1

\* the rows of the log made from raw event k
Copies(k) == {j \in 1..Len(log) : log[j] = RowOf(k)}

\* C25 -- Duplicate records after a crash: when a cycle had stored the first J-1
\* events of a batch and the process crashed before the cycle ended, the cycle
\* that starts from the checkpoint the restarted process loads from the log, and
\* ends normally, has fetched those J-1 events and stored them again: the log
\* holds two records for each.
C25_RetryStoresAgain ==
    (done.outcome = "ok" /\ done.cpBefore = MaxLedgerOf(SubSeq(log, 1, CrashedAfter))) =>
        \A k \in 1..CrashedAfter :
            /\ k \in Range(done.resp)
            /\ Cardinality(Copies(k)) = 2

\* C26 -- Within one process lifetime each raw event is stored at most once: over
\* any sequence of cycles, those retried after a failed fetch or a failed save
\* included, the log never holds two records made from the same raw event.
C26_StoredAtMostOnce ==
    \A k \in 1..Len(chain) : Decodable(chain[k]) => Cardinality(Copies(k)) <= 1

\* C27 -- Initialization does not regress the checkpoint: whenever the load of
\* onModuleInit makes its assignment after a cycle, started by a tick while the
\* load was pending, has set the checkpoint, the value it assigns is not below
\* that checkpoint and is not null (Null is below every ledger).
C27_LoadKeepsCheckpoint ==
    [][ (phase = "loading" /\ phase' = "ready" /\ lastProcessedLedger # Null)
            => lastProcessedLedger' >= lastProcessedLedger ]_vars

\* C28 -- No cycle runs before initialization has finished: no execution of
\* processEvents is in progress while onModuleInit awaits the load, so that a
\* process started with rows in the table passes (maximum ledger of those rows)
\* + 1 to its first getEvents call, never the chain head.
C28_NoCycleBeforeInit ==
    /\ phase = "loading" => runs = {}
    /\ firstStart # Null => firstStart = MaxLedgerOf(SubSeq(log, 1, CrashedAfter)) + 1

\* this step is an interval tick that starts a poll cycle: an execution of
\* processEvents begins and awaits getLatestLedger or getEvents
IntervalStartsCycle ==
    /\ runs = {}
    /\ \E r \in runs' : r.driver = "interval"

\* C29 -- Shutdown stops the timer: once onModuleDestroy has completed the
\* interval of startPolling is cleared, and no interval tick starts a poll
\* cycle: no execution of processEvents begins with the interval as its driver.
C29_ShutdownStopsTimer ==
    [][ /\ phase' = "destroyed" => ~intervalActive'
        /\ phase = "destroyed" => ~IntervalStartsCycle ]_vars

\* C30 -- Every record persistEvent hands to the store is complete: the entity of
\* every save in progress carries a value for each required column of EventLog.
C30_RecordsComplete ==
    \A r \in runs : r.pc = "save" => RequiredColumns \subseteq DOMAIN RowOf(r.resp[r.at])

====
